---- MODULE Spec2Model ----
(***************************************************************************)
(* Model of the gemini-imagen4 MCP server: the generate_image_from_text    *)
(* tool in its five variants, the generated-image registry (per session    *)
(* and process-wide), the resource list/read callbacks and the filename /  *)
(* URI derivation.                                                          *)
(*                                                                          *)
(* A JavaScript string is modelled as a sequence of one-character strings, *)
(* so that toLowerCase, replace, split, slice, join and the template        *)
(* literals are computed character by character as the code computes them. *)
(***************************************************************************)
EXTENDS Integers, Sequences, FiniteSets, TLC

\* ------------------------------------------------------------------------
\* JavaScript values

\* undefined: an omitted optional parameter, a missing field.
None == "undefined"

\* JavaScript truthiness of an optional string: undefined and "" are falsy.
Truthy(v) == v # None /\ v # ""

Min(a, b) == IF a < b THEN a ELSE b

\* s.slice(0, n)
Slice(s, n) == SubSeq(s, 1, Min(n, Len(s)))

\* ------------------------------------------------------------------------
\* Characters

UpperChars ==
  << "A", "B", "C", "D", "E", "F", "G", "H", "I", "J", "K", "L", "M",
     "N", "O", "P", "Q", "R", "S", "T", "U", "V", "W", "X", "Y", "Z" >>

LowerChars ==
  << "a", "b", "c", "d", "e", "f", "g", "h", "i", "j", "k", "l", "m",
     "n", "o", "p", "q", "r", "s", "t", "u", "v", "w", "x", "y", "z" >>

DigitChars == << "0", "1", "2", "3", "4", "5", "6", "7", "8", "9" >>

Range(s) == { s[i] : i \in DOMAIN s }

\* String.prototype.toLowerCase on one character.
ToLowerChar(c) ==
  IF c \in Range(UpperChars)
    THEN LowerChars[CHOOSE i \in DOMAIN UpperChars : UpperChars[i] = c]
    ELSE c

\* prompt.toLowerCase()
ToLowerCase(s) == [i \in DOMAIN s |-> ToLowerChar(s[i])]

\* The regex class \w: [A-Za-z0-9_].
IsWordChar(c) ==
  c \in Range(UpperChars) \cup Range(LowerChars) \cup Range(DigitChars) \cup {"_"}

\* The regex class \s (the ASCII members that occur in prompts).
IsSpaceChar(c) == c \in {" ", "\t", "\n", "\r"}

\* A character class that also keeps dots and slashes.
KeptCharOrPath(c) == IsWordChar(c) \/ IsSpaceChar(c) \/ c \in {".", "/"}

\* The characters .replace(/[^\w\s]/g, "") keeps.
KeptChar(c) == IsWordChar(c) \/ IsSpaceChar(c)

\* .replace(/[^\w\s]/g, "")
StripPunctuation(s) == SelectSeq(s, KeptChar)

\* .split(/\s+/): the pieces between maximal whitespace runs; a leading or a
\* trailing run leaves an empty piece, and "" splits to [""].
RECURSIVE SplitWhitespace(_)
SplitWhitespace(s) ==
  IF \A i \in DOMAIN s : ~IsSpaceChar(s[i])
    THEN << s >>
    ELSE LET i == CHOOSE k \in DOMAIN s :
                    /\ IsSpaceChar(s[k])
                    /\ \A m \in 1..(k - 1) : ~IsSpaceChar(s[m])
             rest == { k \in (i + 1)..Len(s) : ~IsSpaceChar(s[k]) }
             j == IF rest = {} THEN Len(s) + 1
                  ELSE CHOOSE k \in rest : \A m \in rest : k <= m
         IN  << SubSeq(s, 1, i - 1) >> \o SplitWhitespace(SubSeq(s, j, Len(s)))

\* words.join(sep)
RECURSIVE Join(_, _)
Join(words, sep) ==
  IF Len(words) = 0 THEN << >>
  ELSE IF Len(words) = 1 THEN words[1]
  ELSE words[1] \o sep \o Join(Tail(words), sep)

\* Number to decimal string, as a template literal prints a non-negative integer.
RECURSIVE NumberToString(_)
NumberToString(n) ==
  IF n < 10 THEN << DigitChars[n + 1] >>
  ELSE NumberToString(n \div 10) \o << DigitChars[(n % 10) + 1] >>

\* ------------------------------------------------------------------------
\* Filename and URI derivation

\* .slice(0, 4): the number of split pieces kept.
MaxWords == 4

\* promptWords.slice(0, 30): the cap on the joined segment.
MaxSegment == 30

PngMime == "image/png"
JpegMime == "image/jpeg"

\* PromptWords without toLowerCase().
PromptWordsKeepCase(prompt) ==
  Join(Slice(SplitWhitespace(StripPunctuation(prompt)), MaxWords), << "_" >>)

\* prompt.toLowerCase().replace(/[^\w\s]/g, "").split(/\s+/).slice(0, 4).join("_")
PromptWords(prompt) ==
  Join(Slice(SplitWhitespace(StripPunctuation(ToLowerCase(prompt))), MaxWords),
       << "_" >>)

\* const sanitizedPrompt = promptWords.slice(0, 30)
SanitizedPrompt(prompt) == Slice(PromptWords(prompt), MaxSegment)

\* The extension of a handler that writes PNG names only.
ExtensionAlwaysPng(outputMimeType) == << "p", "n", "g" >>

\* const extension = outputMimeType === "image/jpeg" ? "jpg" : "png"
Extension(outputMimeType) ==
  IF outputMimeType = JpegMime THEN << "j", "p", "g" >> ELSE << "p", "n", "g" >>

\* Filename with the prompt's length after the sanitized prompt.
FilenameWithLength(prompt, timestamp, outputMimeType) ==
  NumberToString(timestamp) \o << "_" >> \o SanitizedPrompt(prompt)
    \o NumberToString(Len(prompt)) \o << "." >> \o Extension(outputMimeType)

\* const filename = `${timestamp}_${sanitizedPrompt}.${extension}`
Filename(prompt, timestamp, outputMimeType) ==
  NumberToString(timestamp) \o << "_" >> \o SanitizedPrompt(prompt)
    \o << "." >> \o Extension(outputMimeType)

UriScheme ==
  << "g", "e", "n", "e", "r", "a", "t", "e", "d", "-", "i", "m", "a", "g", "e",
     ":", "/", "/" >>

\* const uri = `generated-image://${filename}`
Uri(filename) == UriScheme \o filename

\* ------------------------------------------------------------------------
\* Bounds of the model

\* Tool calls issued in one behaviour.
MaxRequests == 2

\* Seconds the clock advances past Epoch0.
MaxTicks == 1

\* ------------------------------------------------------------------------
\* Inputs

\* The second the process starts in (the README's example timestamp).
Epoch0 == 1754998591

Variants == {"session", "global", "file", "index", "inline"}

Sessions == {"s1", "s2"}

DefaultModel == "imagen-4.0-generate-preview-06-06"
FastModel == "imagen-4.0-fast-generate-preview-06-06"
UltraModel == "imagen-4.0-ultra-generate-preview-06-06"

\* z.enum([...]) of the model parameter.
ModelEnum == {DefaultModel, FastModel, UltraModel}

\* config.modelName is any string; its default is DefaultModel.
ConfigModelNames == {DefaultModel, "imagen-3.0-generate-002"}

\* "Red fox" and "red, fox!": two prompts with the same cleaned words.
RedFox == << "R", "e", "d", " ", "f", "o", "x" >>
RedFoxPunct == << "r", "e", "d", ",", " ", "f", "o", "x", "!" >>

Prompts == {RedFox, RedFoxPunct}

ModelArgs == {None}

AspectArgs == {None}

MimeArgs == {None, JpegMime}

\* Base64 payloads the provider returns, and the bytes Buffer.from(.., 'base64')
\* decodes them to.
PngBase64 == "aGk="
JpgBase64 == "AQID"

Base64Decode(b) == IF b = PngBase64 THEN << 104, 105 >> ELSE << 1, 2, 3 >>

\* One entry of response.generatedImages.
ImageEntries ==
  [raiFilteredReason : {None, "", "SAFETY"},
   imageBytes : {None, "", PngBase64, JpgBase64}]

\* numberOfImages: 1 in the provider call: the provider returns at most that many.
NumberOfImages == 1

RECURSIVE SeqsUpTo(_, _)
SeqsUpTo(S, n) ==
  IF n = 0 THEN { << >> }
  ELSE LET shorter == SeqsUpTo(S, n - 1)
       IN  shorter \cup { Append(q, e) : q \in { r \in shorter : Len(r) = n - 1 }, e \in S }

\* What awaiting genAI.models.generateImages can produce: a thrown value (its
\* message, or its string form when it is no Error), or a response whose
\* generatedImages is missing or a list.
ProviderResults ==
  [thrown : {TRUE}, message : {"fetch failed"},
   hasImages : {FALSE}, generatedImages : { << >> }]
  \cup
  [thrown : {FALSE}, message : {""},
   hasImages : {FALSE}, generatedImages : { << >> }]
  \cup
  [thrown : {FALSE}, message : {""},
   hasImages : {TRUE}, generatedImages : SeqsUpTo(ImageEntries, NumberOfImages)]

NoResult ==
  [thrown |-> FALSE, message |-> "", hasImages |-> FALSE,
   generatedImages |-> << >>]

\* ------------------------------------------------------------------------
\* State

VARIABLES
  variant,                 \* which variant of the server this process runs
  configModelName,         \* config.modelName
  now,                     \* Math.floor(Date.now() / 1000)
  sessionImageRegistries,  \* session variant: sessionId -> registry
  imageRegistry,           \* global-registry variant: the process-wide registry
  files,                   \* file variants: path -> bytes under generated-images/
  inflight,                \* tool calls awaiting the provider: id -> call
  nextId,                  \* tool calls issued so far
  response,                \* the provider result last delivered, with its call
  reply                    \* the result of the request handled last

vars ==
  << variant, configModelName, now, sessionImageRegistries, imageRegistry, files,
     inflight, nextId, response, reply >>

\* ------------------------------------------------------------------------
\* Map<string, GeneratedImage>: entries in insertion order

MapKeys(m) == { m[i].key : i \in DOMAIN m }

MapHas(m, k) == k \in MapKeys(m)

MapIndex(m, k) == CHOOSE i \in DOMAIN m : m[i].key = k

\* m.get(k), for a key the map has
MapGet(m, k) == m[MapIndex(m, k)].value

\* m.set(k, v) that keeps the value of a key the map already has.
MapSetIfAbsent(m, k, v) ==
  IF MapHas(m, k) THEN m ELSE Append(m, [key |-> k, value |-> v])

\* m.set(k, v) as a push onto a list of entries.
MapSetAppend(m, k, v) == Append(m, [key |-> k, value |-> v])

\* m.set(k, v): overwrite in place, or append
MapSet(m, k, v) ==
  IF MapHas(m, k)
    THEN [m EXCEPT ![MapIndex(m, k)] = [key |-> k, value |-> v]]
    ELSE Append(m, [key |-> k, value |-> v])

\* Array.from(m.values())
MapValues(m) == [i \in DOMAIN m |-> m[i].value]

\* ------------------------------------------------------------------------
\* Tool results

\* One block of a result's content. A text is its template (the literal part)
\* and the values the template substitutes.
TextBlock ==
  [type |-> "text", text |-> "", index |-> 0, detail |-> "", model |-> "",
   path |-> << >>, data |-> "", mimeType |-> "", size |-> 0]

NoImagesText == "No images were generated. This might be due to content filtering."
FilteredText == "Image was filtered: ${raiFilteredReason}"
ImageFilteredText == "Image ${index + 1} was filtered: ${raiFilteredReason}"
NoDataText == "Image generation failed - no image data received"
ImageNoDataText == "Image ${index + 1} generation failed - no image data received"
ErrorText == "Error generating image: ${message}"
ResourceText ==
  "Generated image using ${imageModel}\nResource available at: ${uri}\n\nUse MCP resources to view the image."
SavedFileText ==
  "Generated image using ${imageModel}\nSaved to: ${filePath}\nFile size: ${imageBuffer.length} bytes\n\nYou can access this image via file path or MCP resources."
GeneratedText == "Generated ${length} image(s) using ${imageModel}"
GeneratedBase64Text == "Generated ${length} image(s) using ${imageModel} (base64 mode)"
GeneratedSavedText ==
  "Generated ${length} image(s) using ${imageModel}\nSaved to: ./${relativePath}/"
ImageSavedText == "Image ${index + 1} saved to: ${relativeFilepath}"
SaveFailedText == "Failed to save image ${index + 1}: ${error}"

\* What a handler does on resuming: the content it returns, the images it
\* sets in its registry and the files it writes.
Result(content, puts, writes) ==
  [content |-> content, puts |-> puts, writes |-> writes]

\* if (!response.generatedImages || response.generatedImages.length === 0)
IsEmptyResponse(res) == ~res.hasImages \/ Len(res.generatedImages) = 0

\* The empty branch falling through to the no-data text.
EmptyResultAsNoData ==
  Result(<< [TextBlock EXCEPT !.text = NoDataText] >>, << >>, << >>)

EmptyResult ==
  Result(<< [TextBlock EXCEPT !.text = NoImagesText] >>, << >>, << >>)

\* The catch block answering without the error's message.
ErrorResultNoMessage(message) ==
  Result(<< [TextBlock EXCEPT !.text = ErrorText] >>, << >>, << >>)

\* catch (error): error instanceof Error ? error.message : String(error)
ErrorResult(message) ==
  Result(<< [TextBlock EXCEPT !.text = ErrorText, !.detail = message] >>, << >>, << >>)

\* The filtered branch throwing its reason into the catch block.
FilteredResultThrown(reason) ==
  Result(<< [TextBlock EXCEPT !.text = ErrorText, !.detail = reason] >>, << >>, << >>)

FilteredResult(reason) ==
  Result(<< [TextBlock EXCEPT !.text = FilteredText, !.detail = reason] >>, << >>, << >>)

NoDataResult ==
  Result(<< [TextBlock EXCEPT !.text = NoDataText] >>, << >>, << >>)

\* Reading a property of response.generatedImages[0] when the list is missing
\* or has no first entry throws inside the try block.
UndefinedReadMessage == "Cannot read properties of undefined (reading 'raiFilteredReason')"

\* The thrown value of a failed fs.writeFileSync.
WriteErrorMessage == "ENOSPC: no space left on device, write"

\* StoredImage with the model's variant letter put into the filename.
StoredImagePerModel(call, imageBytes, timestamp) ==
  LET tag == IF call.imageModel = FastModel THEN << "f" >> ELSE << >>
      filename == Filename(call.prompt \o tag, timestamp, call.outputMimeType)
  IN  [uri |-> Uri(filename),
       filename |-> filename,
       imageData |-> imageBytes,
       mimeType |-> IF Truthy(call.outputMimeType) THEN call.outputMimeType ELSE PngMime,
       prompt |-> call.prompt,
       model |-> call.imageModel,
       timestamp |-> timestamp]

\* StoredImage with the clock read before the provider call.
StoredImageAtIssue(call, imageBytes, timestamp) ==
  LET filename == Filename(call.prompt, call.issuedAt, call.outputMimeType)
  IN  [uri |-> Uri(filename),
       filename |-> filename,
       imageData |-> imageBytes,
       mimeType |-> IF Truthy(call.outputMimeType) THEN call.outputMimeType ELSE PngMime,
       prompt |-> call.prompt,
       model |-> call.imageModel,
       timestamp |-> call.issuedAt]

\* const imageData: GeneratedImage = { uri, filename, imageData, mimeType, ... }
StoredImage(call, imageBytes, timestamp) ==
  LET filename == Filename(call.prompt, timestamp, call.outputMimeType)
  IN  [uri |-> Uri(filename),
       filename |-> filename,
       imageData |-> imageBytes,
       mimeType |-> IF Truthy(call.outputMimeType) THEN call.outputMimeType ELSE PngMime,
       prompt |-> call.prompt,
       model |-> call.imageModel,
       timestamp |-> timestamp]

\* The tool handler of the session variant from the provider's result on (the
\* global-registry variant runs the same code on the process-wide registry).
RegistryToolResult(call, res, timestamp) ==
  IF res.thrown THEN ErrorResult(res.message)
  ELSE IF IsEmptyResponse(res) THEN EmptyResult
  ELSE IF ~res.hasImages \/ Len(res.generatedImages) = 0
    THEN ErrorResult(UndefinedReadMessage)
  ELSE LET generatedImage == res.generatedImages[1] IN
    IF Truthy(generatedImage.raiFilteredReason)
      THEN FilteredResult(generatedImage.raiFilteredReason)
    ELSE IF Truthy(generatedImage.imageBytes)
      THEN LET imageData == StoredImage(call, generatedImage.imageBytes, timestamp)
           IN  Result(<< [TextBlock EXCEPT !.text = ResourceText,
                                           !.model = call.imageModel,
                                           !.path = imageData.uri] >>,
                      << imageData >>, << >>)
    ELSE NoDataResult

GeneratedImagesDir ==
  << "g", "e", "n", "e", "r", "a", "t", "e", "d", "-", "i", "m", "a", "g", "e", "s" >>

\* path.join(dir, filename), for a filename without separators
PathJoin(dir, filename) == dir \o << "/" >> \o filename

\* The tool handler of the file variant from the provider's result on.
\* writeOk: whether fs.writeFileSync succeeds.
FileToolResult(call, res, timestamp, writeOk) ==
  IF res.thrown THEN ErrorResult(res.message)
  ELSE IF IsEmptyResponse(res) THEN EmptyResult
  ELSE IF ~res.hasImages \/ Len(res.generatedImages) = 0
    THEN ErrorResult(UndefinedReadMessage)
  ELSE LET generatedImage == res.generatedImages[1] IN
    IF Truthy(generatedImage.raiFilteredReason)
      THEN FilteredResult(generatedImage.raiFilteredReason)
    ELSE IF Truthy(generatedImage.imageBytes)
      THEN LET filename == Filename(call.prompt, timestamp, call.outputMimeType)
               filePath == PathJoin(GeneratedImagesDir, filename)
               imageBuffer == Base64Decode(generatedImage.imageBytes)
           IN  IF writeOk
                 THEN Result(<< [TextBlock EXCEPT !.text = SavedFileText,
                                                  !.model = call.imageModel,
                                                  !.path = filePath,
                                                  !.size = Len(imageBuffer)] >>,
                             << >>,
                             << [path |-> filePath, bytes |-> imageBuffer] >>)
                 ELSE ErrorResult(WriteErrorMessage)
    ELSE NoDataResult

\* InlineBlock testing the image bytes before the filter reason.
InlineBlockBytesFirst(generatedImage, index, outputMimeType) ==
  IF Truthy(generatedImage.imageBytes)
    THEN [TextBlock EXCEPT !.type = "image", !.data = generatedImage.imageBytes,
            !.mimeType = IF Truthy(outputMimeType) THEN outputMimeType ELSE PngMime]
  ELSE IF Truthy(generatedImage.raiFilteredReason)
    THEN [TextBlock EXCEPT !.text = ImageFilteredText, !.index = index + 1,
                           !.detail = generatedImage.raiFilteredReason]
  ELSE [TextBlock EXCEPT !.text = ImageNoDataText, !.index = index + 1]

\* One entry's block in the inline variant and in returnBase64 mode.
InlineBlock(generatedImage, index, outputMimeType) ==
  IF Truthy(generatedImage.raiFilteredReason)
    THEN [TextBlock EXCEPT !.text = ImageFilteredText, !.index = index + 1,
                           !.detail = generatedImage.raiFilteredReason]
  ELSE IF Truthy(generatedImage.imageBytes)
    THEN [TextBlock EXCEPT !.type = "image", !.data = generatedImage.imageBytes,
            !.mimeType = IF Truthy(outputMimeType) THEN outputMimeType ELSE PngMime]
  ELSE [TextBlock EXCEPT !.text = ImageNoDataText, !.index = index + 1]

\* response.generatedImages.map((generatedImage, index) => ...)
InlineBlocks(images, outputMimeType) ==
  [i \in DOMAIN images |-> InlineBlock(images[i], i - 1, outputMimeType)]

\* The tool handler of the inline variant from the provider's result on.
InlineToolResult(call, res, header) ==
  IF res.thrown THEN ErrorResult(res.message)
  ELSE IF IsEmptyResponse(res) THEN EmptyResult
  ELSE IF ~res.hasImages THEN ErrorResult(UndefinedReadMessage)
  ELSE Result(<< [TextBlock EXCEPT !.text = header,
                                   !.size = Len(res.generatedImages),
                                   !.model = call.imageModel] >>
                \o InlineBlocks(res.generatedImages, call.outputMimeType),
              << >>, << >>)

\* PersistBlock without the try/catch around the write reporting its failure.
PersistBlockSilent(generatedImage, index, filename, writeOk) ==
  IF Truthy(generatedImage.raiFilteredReason)
    THEN [TextBlock EXCEPT !.text = ImageFilteredText, !.index = index + 1,
                           !.detail = generatedImage.raiFilteredReason]
  ELSE IF Truthy(generatedImage.imageBytes)
    THEN [TextBlock EXCEPT !.text = ImageSavedText, !.index = index + 1,
                           !.path = PathJoin(GeneratedImagesDir, filename)]
  ELSE [TextBlock EXCEPT !.text = ImageNoDataText, !.index = index + 1]

\* One entry's block in the persist mode of src/index.ts, and the file it writes.
PersistBlock(generatedImage, index, filename, writeOk) ==
  IF Truthy(generatedImage.raiFilteredReason)
    THEN [TextBlock EXCEPT !.text = ImageFilteredText, !.index = index + 1,
                           !.detail = generatedImage.raiFilteredReason]
  ELSE IF Truthy(generatedImage.imageBytes)
    THEN IF writeOk
           THEN [TextBlock EXCEPT !.text = ImageSavedText, !.index = index + 1,
                                  !.path = PathJoin(GeneratedImagesDir, filename)]
           ELSE [TextBlock EXCEPT !.text = SaveFailedText, !.index = index + 1,
                                  !.detail = WriteErrorMessage]
  ELSE [TextBlock EXCEPT !.text = ImageNoDataText, !.index = index + 1]

\* The files response.generatedImages.forEach writes, in order.
RECURSIVE PersistWrites(_, _, _)
PersistWrites(images, filename, writeOk) ==
  IF Len(images) = 0 THEN << >>
  ELSE LET generatedImage == images[Len(images)]
           before == PersistWrites(SubSeq(images, 1, Len(images) - 1), filename, writeOk)
       IN  IF /\ ~Truthy(generatedImage.raiFilteredReason)
              /\ Truthy(generatedImage.imageBytes)
              /\ writeOk
             THEN Append(before, [path |-> PathJoin(GeneratedImagesDir, filename),
                                  bytes |-> Base64Decode(generatedImage.imageBytes)])
             ELSE before

\* The tool handler of src/index.ts from the provider's result on.
IndexToolResult(call, res, timestamp, writeOk) ==
  IF res.thrown THEN ErrorResult(res.message)
  ELSE IF IsEmptyResponse(res) THEN EmptyResult
  ELSE IF ~res.hasImages THEN ErrorResult(UndefinedReadMessage)
  ELSE IF call.returnBase64 THEN InlineToolResult(call, res, GeneratedBase64Text)
  ELSE LET filename == Filename(call.prompt, timestamp, call.outputMimeType)
           images == res.generatedImages
       IN  Result(<< [TextBlock EXCEPT !.text = GeneratedSavedText,
                                       !.size = Len(images),
                                       !.model = call.imageModel] >>
                    \o [i \in DOMAIN images |->
                          PersistBlock(images[i], i - 1, filename, writeOk)],
                  << >>,
                  PersistWrites(images, filename, writeOk))

\* Whether fs.writeFileSync succeeds, where the handler reaches it.
WriteOutcomes(v, call, res) ==
  IF /\ v \in {"file", "index"}
     /\ ~call.returnBase64
     /\ ~res.thrown
     /\ \E i \in DOMAIN res.generatedImages :
          /\ ~Truthy(res.generatedImages[i].raiFilteredReason)
          /\ Truthy(res.generatedImages[i].imageBytes)
    THEN BOOLEAN
    ELSE {TRUE}

\* The whole handler after the await, by variant.
ToolResult(v, call, res, timestamp, writeOk) ==
  CASE v \in {"session", "global"} -> RegistryToolResult(call, res, timestamp)
    [] v = "file" -> FileToolResult(call, res, timestamp, writeOk)
    [] v = "index" -> IndexToolResult(call, res, timestamp, writeOk)
    [] v = "inline" -> InlineToolResult(call, res, GeneratedText)

\* ------------------------------------------------------------------------
\* Requests

\* The arguments after the input schema's defaults, and the model the handler
\* passes to the provider.
\* session, global, file, index: model has .default(DefaultModel) and
\* imageModel = model; inline: imageModel = model || config.modelName.
ImageModel(v, model, modelName) ==
  IF v = "inline"
    THEN IF Truthy(model) THEN model ELSE modelName
    ELSE IF model = None THEN DefaultModel ELSE model

\* outputMimeType: .optional().default("image/png")
ParsedMimeType(outputMimeType) ==
  IF outputMimeType = None THEN PngMime ELSE outputMimeType

\* genAI.models.generateImages({ model, prompt, config: { numberOfImages: 1,
\* aspectRatio, outputMimeType, includeRaiReason: true } }), with what the
\* handler keeps across the await.
ProviderCall(v, sessionId, prompt, model, aspectRatio, outputMimeType, returnBase64, modelName, issuedAt) ==
  [session |-> sessionId,
   prompt |-> prompt,
   imageModel |-> ImageModel(v, model, modelName),
   modelGiven |-> model # None,
   numberOfImages |-> NumberOfImages,
   aspectRatio |-> aspectRatio,
   outputMimeType |-> ParsedMimeType(outputMimeType),
   returnBase64 |-> returnBase64,
   issuedAt |-> issuedAt]

NoCall ==
  [session |-> "", prompt |-> << >>, imageModel |-> "", modelGiven |-> FALSE,
   numberOfImages |-> 0, aspectRatio |-> None, outputMimeType |-> PngMime,
   returnBase64 |-> FALSE, issuedAt |-> 0]

\* No provider result: the request handled last was not a tool call.
NoResponse == [id |-> 0, call |-> NoCall, result |-> NoResult]

NoReply ==
  [op |-> "none", id |-> 0, session |-> "", uri |-> << >>, thrown |-> FALSE,
   error |-> "", content |-> << >>, contents |-> << >>, resources |-> << >>]

ResourceNotFoundText == "Resource not found: ${uri}"

\* The session a tool call of this variant runs in ("" when the variant has none).
SessionsOf(v, registries) == IF v = "session" THEN DOMAIN registries ELSE {""}

\* RegistryOf with one registry shared by every session.
RegistryOfAnySession(v, registries, global, sessionId) ==
  IF v = "session" THEN registries[CHOOSE s \in DOMAIN registries : TRUE] ELSE global

\* The registry a handler of this variant and session reads and writes.
RegistryOf(v, registries, global, sessionId) ==
  IF v = "session" THEN registries[sessionId] ELSE global

Init ==
  /\ variant \in Variants
  /\ configModelName = DefaultModel
  /\ now = Epoch0
  /\ sessionImageRegistries = << >>
  /\ imageRegistry = << >>
  /\ files = << >>
  /\ inflight = << >>
  /\ nextId = 0
  /\ response = NoResponse
  /\ reply = NoReply

\* ------------------------------------------------------------------------
\* Operations

\* The clock reaches the next second.
Tick ==
  /\ now < Epoch0 + MaxTicks
  /\ now' = now + 1
  /\ UNCHANGED << variant, configModelName, sessionImageRegistries, imageRegistry,
                  files, inflight, nextId, response, reply >>

\* createMcpServer that sets a new registry for the session every time.
CreateMcpServerFresh(sessionId) ==
  /\ variant = "session"
  /\ sessionImageRegistries' =
       [s \in DOMAIN sessionImageRegistries \cup {sessionId} |->
          IF s = sessionId THEN << >> ELSE sessionImageRegistries[s]]
  /\ UNCHANGED << variant, configModelName, now, imageRegistry, files, inflight,
                  nextId, response, reply >>

\* createMcpServer({ sessionId, config }): get or create the session's registry.
CreateMcpServer(sessionId) ==
  /\ variant = "session"
  /\ sessionImageRegistries' =
       IF sessionId \in DOMAIN sessionImageRegistries
         THEN sessionImageRegistries
         ELSE sessionImageRegistries @@ (sessionId :> << >>)
  /\ UNCHANGED << variant, configModelName, now, imageRegistry, files, inflight,
                  nextId, response, reply >>

\* generate_image_from_text up to the await: the provider call is issued.
CallTool(sessionId, prompt, model, aspectRatio, outputMimeType, returnBase64) ==
  /\ nextId < MaxRequests
  /\ sessionId \in SessionsOf(variant, sessionImageRegistries)
  /\ returnBase64 => variant = "index"
  /\ nextId' = nextId + 1
  /\ inflight' = inflight @@
       (nextId + 1 :> ProviderCall(variant, sessionId, prompt, model, aspectRatio,
                                   outputMimeType, returnBase64, configModelName, now))
  /\ UNCHANGED << variant, configModelName, now, sessionImageRegistries,
                  imageRegistry, files, response, reply >>

\* A store into a registry with room for one image: the oldest entry goes.
PutAllCapped(registry, puts) ==
  IF Len(puts) = 0 THEN registry
  ELSE LET stored == MapSet(registry, puts[1].uri, puts[1])
       IN  IF Len(stored) > 1 THEN Tail(stored) ELSE stored

\* registry.set(uri, imageData) for each image the handler stores
RECURSIVE PutAll(_, _)
PutAll(registry, puts) ==
  IF Len(puts) = 0 THEN registry
  ELSE PutAll(MapSet(registry, puts[1].uri, puts[1]), Tail(puts))

\* fs.writeFileSync(path, bytes) for each file the handler writes
RECURSIVE WriteAll(_, _)
WriteAll(dir, writes) ==
  IF Len(writes) = 0 THEN dir
  ELSE WriteAll(MapSet(dir, writes[1].path, writes[1].bytes), Tail(writes))

\* generate_image_from_text from the await on: the provider's result arrives
\* and the handler runs to its return.
ProviderSettles(id, res, writeOk) ==
  /\ id \in DOMAIN inflight
  /\ LET call == inflight[id]
         result == ToolResult(variant, call, res, now, writeOk)
     IN  /\ response' = [id |-> id, call |-> call, result |-> res]
         /\ reply' = [NoReply EXCEPT !.op = "tool", !.id = id,
                                     !.session = call.session,
                                     !.content = result.content]
         /\ sessionImageRegistries' =
              IF variant = "session"
                THEN [sessionImageRegistries EXCEPT
                        ![call.session] = PutAll(@, result.puts)]
                ELSE sessionImageRegistries
         /\ imageRegistry' =
              IF variant = "global" THEN PutAll(imageRegistry, result.puts)
              ELSE imageRegistry
         /\ files' = WriteAll(files, result.writes)
  /\ inflight' = [i \in DOMAIN inflight \ {id} |-> inflight[i]]
  /\ UNCHANGED << variant, configModelName, now, nextId >>

\* "Generated Image: " and "..." around prompt.slice(0, 50)
TitlePrefix ==
  << "G", "e", "n", "e", "r", "a", "t", "e", "d", " ", "I", "m", "a", "g", "e",
     ":", " " >>

Ellipsis == << ".", ".", "." >>

\* prompt.slice(0, 50)
TitleLength == 50

ImageTitle(image) == TitlePrefix \o Slice(image.prompt, TitleLength) \o Ellipsis

\* One entry of a resource listing. The session variant names the image by its
\* filename and titles it by its prompt; the global-registry variant names it
\* by its prompt and has no title.
ResourceSummary(v, image) ==
  [uri |-> image.uri,
   name |-> IF v = "session" THEN image.filename ELSE ImageTitle(image),
   title |-> IF v = "session" THEN ImageTitle(image) ELSE << >>,
   description |-> image.model,
   mimeType |-> image.mimeType]

\* Array.from(imageRegistry.values()).map(image => ({ ... }))
ListResult(v, registry) ==
  LET images == MapValues(registry)
  IN  [i \in DOMAIN images |-> ResourceSummary(v, images[i])]

\* The list callback of the resource template (session variant), the
\* resources/list handler (global-registry variant).
ListResources(sessionId) ==
  /\ variant \in {"session", "global"}
  /\ sessionId \in SessionsOf(variant, sessionImageRegistries)
  /\ reply' = [NoReply EXCEPT
                 !.op = "list", !.session = sessionId,
                 !.resources =
                   ListResult(variant, RegistryOf(variant, sessionImageRegistries,
                                                  imageRegistry, sessionId))]
  /\ UNCHANGED << variant, configModelName, now, sessionImageRegistries,
                  imageRegistry, files, inflight, nextId >>
  /\ response' = NoResponse

\* ReadResult that answers a missing image with an empty success.
ReadResultOrEmpty(registry, uri) ==
  IF ~MapHas(registry, uri)
    THEN [thrown |-> FALSE, error |-> "", contents |-> << >>]
    ELSE LET image == MapGet(registry, uri)
         IN  [thrown |-> FALSE, error |-> "",
              contents |-> << [uri |-> uri, mimeType |-> image.mimeType,
                               blob |-> image.imageData] >>]

\* What a read of uri answers from a registry: the image's blob and mime type,
\* or the thrown Error("Resource not found: ...").
ReadResult(registry, uri) ==
  IF ~MapHas(registry, uri)
    THEN [thrown |-> TRUE, error |-> ResourceNotFoundText, contents |-> << >>]
    ELSE LET image == MapGet(registry, uri)
         IN  [thrown |-> FALSE, error |-> "",
              contents |-> << [uri |-> uri, mimeType |-> image.mimeType,
                               blob |-> image.imageData] >>]

\* The read callback of the resource template (session variant), the
\* resources/read handler (global-registry variant).
ReadResource(sessionId, uri) ==
  /\ variant \in {"session", "global"}
  /\ sessionId \in SessionsOf(variant, sessionImageRegistries)
  /\ LET result == ReadResult(RegistryOf(variant, sessionImageRegistries,
                                         imageRegistry, sessionId), uri)
     IN  reply' = [NoReply EXCEPT
                     !.op = "read", !.session = sessionId, !.uri = uri,
                     !.thrown = result.thrown, !.error = result.error,
                     !.contents = result.contents]
  /\ UNCHANGED << variant, configModelName, now, sessionImageRegistries,
                  imageRegistry, files, inflight, nextId >>
  /\ response' = NoResponse

\* A URI no generation derives: its filename has no timestamp.
UnknownUri == Uri(<< "n", "o", "n", "e", ".", "p", "n", "g" >>)

\* The URIs a client asks for: those it has seen in any registry, and one it
\* has not.
RequestedUris ==
  UNION { MapKeys(sessionImageRegistries[s]) : s \in DOMAIN sessionImageRegistries }
    \cup MapKeys(imageRegistry) \cup {UnknownUri}

Next ==
  \/ Tick
  \/ \E sessionId \in Sessions : CreateMcpServer(sessionId)
  \/ \E sessionId \in Sessions \cup {""}, prompt \in Prompts, model \in ModelArgs,
        aspectRatio \in AspectArgs, outputMimeType \in MimeArgs,
        returnBase64 \in BOOLEAN :
       CallTool(sessionId, prompt, model, aspectRatio, outputMimeType, returnBase64)
  \/ \E id \in DOMAIN inflight, res \in ProviderResults :
       \E writeOk \in WriteOutcomes(variant, inflight[id], res) :
         ProviderSettles(id, res, writeOk)
  \/ \E sessionId \in Sessions \cup {""} : ListResources(sessionId)
  \/ \E sessionId \in Sessions \cup {""}, uri \in RequestedUris :
       ReadResource(sessionId, uri)

Spec == Init /\ [][Next]_vars

\* ------------------------------------------------------------------------
\* The derivation on many prompts: one tool call per behaviour, its prompt
\* built from pieces that bring upper case, punctuation, underscores, leading
\* and trailing whitespace, more than four words and more than 30 characters.

\* Pieces in one prompt.
MaxPieces == 2

PromptPieces ==
  { << "R", "e", "d", " ", "f", "o", "x", " " >>,
    << "!" >>,
    << " " >>,
    << "!", " ", "?" >>,
    << "a", "_", "b" >>,
    << "a", "b", "c", "d", "e", "f", "g", "h", "i", "j", "k", "l", "m", "n", "o",
       "p", "q", "r", "s", "t", "u", "v", "w", "x", "y", "z", "0", "1", "2", "3",
       "4", "5", "6", "7", "8", "9" >> }

RECURSIVE Flatten(_)
Flatten(pieces) ==
  IF Len(pieces) = 0 THEN << >> ELSE pieces[1] \o Flatten(Tail(pieces))

\* The README's example prompt.
DragonPrompt ==
  << "A", " ", "m", "a", "j", "e", "s", "t", "i", "c", " ", "d", "r", "a", "g",
     "o", "n", " ", "s", "o", "a", "r", "i", "n", "g", " ", "t", "h", "r", "o",
     "u", "g", "h", " ", "a", " ", "s", "u", "n", "s", "e", "t", " ", "s", "k",
     "y" >>

\* A prompt of path characters: "../Etc\tpw".
TraversalPrompt == << ".", ".", "/", "E", "t", "c", "\t", "p", "w" >>

DerivePrompts ==
  { Flatten(q) : q \in SeqsUpTo(PromptPieces, MaxPieces) }
    \cup {DragonPrompt, TraversalPrompt}

\* The seconds a derivation runs in: the README's, and one with a carry.
DeriveTimes == {Epoch0, Epoch0 + 9}

\* The other arguments of the call and the configured model.
DeriveProfiles ==
  { [model |-> None, aspectRatio |-> None, modelName |-> DefaultModel],
    [model |-> FastModel, aspectRatio |-> "16:9", modelName |-> DefaultModel],
    [model |-> None, aspectRatio |-> "1:1", modelName |-> "imagen-3.0-generate-002"] }

\* The provider results of these behaviours: an image, or a thrown error.
DeriveResults ==
  { [NoResult EXCEPT !.hasImages = TRUE,
       !.generatedImages = << [raiFilteredReason |-> None, imageBytes |-> PngBase64] >>],
    [NoResult EXCEPT !.thrown = TRUE, !.message = "fetch failed"] }

\* An image generated a minute before Epoch0.
EarlierImage(sessionId) ==
  StoredImage(ProviderCall("session", sessionId, RedFox, None, None, None, FALSE,
                           DefaultModel, Epoch0 - 60),
              JpgBase64, Epoch0 - 60)

\* A registry before the call: empty, or holding the earlier image.
EarlierRegistries(sessionId) ==
  { << >>, MapSet(<< >>, EarlierImage(sessionId).uri, EarlierImage(sessionId)) }

\* Every session has its server; one tool call awaits the provider.
DeriveInit ==
  /\ variant \in Variants
  /\ now \in DeriveTimes
  /\ \E earlier \in EarlierRegistries("") :
       /\ sessionImageRegistries =
            [s \in Sessions |-> IF variant = "session" THEN earlier ELSE << >>]
       /\ imageRegistry = IF variant = "global" THEN earlier ELSE << >>
  /\ files = << >>
  /\ nextId = 1
  /\ response = NoResponse
  /\ reply = NoReply
  /\ \E profile \in DeriveProfiles, prompt \in DerivePrompts,
        outputMimeType \in MimeArgs,
        sessionId \in SessionsOf(variant, sessionImageRegistries) :
       /\ configModelName = profile.modelName
       /\ inflight =
            (1 :> ProviderCall(variant, sessionId, prompt, profile.model,
                               profile.aspectRatio, outputMimeType, FALSE,
                               profile.modelName, now))

DeriveNext ==
  \E id \in DOMAIN inflight, res \in DeriveResults :
    \E writeOk \in WriteOutcomes(variant, inflight[id], res) :
      ProviderSettles(id, res, writeOk)

SpecDerive == DeriveInit /\ [][DeriveNext]_vars

\* ------------------------------------------------------------------------
\* What the claims observe

\* The provider's result is a first image entry with image bytes and no filter
\* reason.
HasImageBytes(res) ==
  /\ ~res.thrown
  /\ res.hasImages
  /\ Len(res.generatedImages) >= 1
  /\ res.generatedImages[1].raiFilteredReason \in {None, ""}
  /\ res.generatedImages[1].imageBytes \notin {None, ""}

\* The registry of the call handled last.
CallRegistry ==
  RegistryOf(variant, sessionImageRegistries, imageRegistry, response.call.session)

\* The tool call handled last derived a filename and stored or wrote under it.
DerivationDone ==
  /\ reply.op = "tool"
  /\ variant # "inline"
  /\ HasImageBytes(response.result)
  /\ ~response.call.returnBase64
  /\ \A i \in DOMAIN reply.content :
       reply.content[i].text \notin {ErrorText, SaveFailedText}

\* The tool call handled last stored or wrote under this filename, and its
\* reply names it.
DerivedAs(filename) ==
  CASE variant \in {"session", "global"} ->
         /\ reply.content[1].path = UriScheme \o filename
         /\ MapHas(CallRegistry, UriScheme \o filename)
         /\ MapGet(CallRegistry, UriScheme \o filename).filename = filename
         /\ MapGet(CallRegistry, UriScheme \o filename).uri = UriScheme \o filename
    [] variant = "file" ->
         /\ reply.content[1].path = GeneratedImagesDir \o << "/" >> \o filename
         /\ MapHas(files, GeneratedImagesDir \o << "/" >> \o filename)
    [] variant = "index" ->
         /\ reply.content[2].path = GeneratedImagesDir \o << "/" >> \o filename
         /\ MapHas(files, GeneratedImagesDir \o << "/" >> \o filename)
    [] OTHER -> FALSE

\* The reference derivation: lower-case, drop every character that is neither
\* alphanumeric nor whitespace, split into words, keep four, join with "_",
\* cut to 30 characters.
RefIsAlphanumeric(c) ==
  c \in Range(UpperChars) \cup Range(LowerChars) \cup Range(DigitChars)

RefKept(c) == RefIsAlphanumeric(c) \/ IsSpaceChar(c)

\* The maximal runs of non-whitespace characters.
RECURSIVE RefWords(_, _)
RefWords(s, word) ==
  IF Len(s) = 0
    THEN IF Len(word) = 0 THEN << >> ELSE << word >>
  ELSE IF IsSpaceChar(s[1])
    THEN (IF Len(word) = 0 THEN << >> ELSE << word >>) \o RefWords(Tail(s), << >>)
  ELSE RefWords(Tail(s), Append(word, s[1]))

RefSegment(prompt) ==
  LET words == RefWords(SelectSeq(ToLowerCase(prompt), RefKept), << >>)
      joined == Join(SubSeq(words, 1, Min(4, Len(words))), << "_" >>)
  IN  SubSeq(joined, 1, Min(30, Len(joined)))

RefExtension(format) ==
  IF format = "image/jpeg" THEN << "j", "p", "g" >> ELSE << "p", "n", "g" >>

RefFilename(prompt, t, format) ==
  NumberToString(t) \o << "_" >> \o RefSegment(prompt) \o << "." >>
    \o RefExtension(format)

\* ------------------------------------------------------------------------
\* Claims

\* C1: for every prompt, timestamp and format the derived filename equals the
\* reference derivation's '<t>_<segment>.<ext>', also for prompts with
\* underscores or with leading or trailing whitespace.
C1_FilenameIsReference ==
  DerivationDone =>
    DerivedAs(RefFilename(response.call.prompt, now, response.call.outputMimeType))

\* The filename the README scenario is said to yield, and the one the code
\* derives.
DragonClaimedFilename ==
  << "1", "7", "5", "4", "9", "9", "8", "5", "9", "1", "_", "m", "a", "j", "e",
     "s", "t", "i", "c", "_", "d", "r", "a", "g", "o", "n", "_", "s", "o", "a",
     "r", "i", "n", "g", "_", "t", "h", "r", ".", "p", "n", "g" >>

DragonSegment ==
  << "a", "_", "m", "a", "j", "e", "s", "t", "i", "c", "_", "d", "r", "a", "g",
     "o", "n", "_", "s", "o", "a", "r", "i", "n", "g" >>

DragonFilename ==
  << "1", "7", "5", "4", "9", "9", "8", "5", "9", "1", "_" >> \o DragonSegment
    \o << ".", "p", "n", "g" >>

\* The README scenario: the dragon prompt, image/png, second 1754998591.
DragonScenario ==
  /\ DerivationDone
  /\ response.call.prompt = DragonPrompt
  /\ response.call.outputMimeType = PngMime
  /\ now = 1754998591

NoAlphanumeric(prompt) ==
  /\ Len(prompt) > 0
  /\ \A i \in DOMAIN prompt : ~RefIsAlphanumeric(prompt[i]) /\ prompt[i] # "_"
  /\ ~IsSpaceChar(prompt[1])
  /\ ~IsSpaceChar(prompt[Len(prompt)])

\* C3: a prompt with no alphanumeric character (punctuation, possibly separated
\* by whitespace) derives an empty segment: the filename is '<t>_.<ext>'.
C3_PunctuationOnly ==
  (DerivationDone /\ NoAlphanumeric(response.call.prompt)) =>
    DerivedAs(NumberToString(now) \o << "_", "." >>
                \o RefExtension(response.call.outputMimeType))

\* C4: the identifier is a function of (prompt, timestamp, format) alone: in
\* every session, for every model, aspect ratio and registry content, a
\* derivation yields the filename and the 'generated-image://' URI that
\* (prompt, timestamp, format) determine.
C4_Deterministic ==
  DerivationDone =>
    DerivedAs(Filename(response.call.prompt, now, response.call.outputMimeType))

C4_Witness ==
  /\ DerivationDone
  /\ variant = "session"
  /\ response.call.session = "s2"
  /\ response.call.imageModel = FastModel
  /\ response.call.aspectRatio = "16:9"
  /\ Len(CallRegistry) = 2

\* ------------------------------------------------------------------------
\* Steps, as the claims about one request see them

\* This step is the handler of a tool call running from the provider's result
\* to its return.
Settles ==
  /\ response'.id \in DOMAIN inflight
  /\ response'.id \notin DOMAIN inflight'

\* This step is a resource read, a resource list.
Reads == reply'.op = "read" /\ reply' # reply
Lists == reply'.op = "list" /\ reply' # reply

\* The registry of a session before and after the step.
RegistryBefore(sessionId) ==
  RegistryOf(variant, sessionImageRegistries, imageRegistry, sessionId)

RegistryAfter(sessionId) ==
  RegistryOf(variant, sessionImageRegistries', imageRegistry', sessionId)

\* What a read answers with an image's bytes and mime type.
ReadAnswer(uri, imageBytes, mimeType) ==
  [thrown |-> FALSE, error |-> "",
   contents |-> << [uri |-> uri, mimeType |-> mimeType, blob |-> imageBytes] >>]

\* This step stores an image in a registry: a tool call of a registry variant
\* whose provider result has image bytes.
Stores ==
  /\ Settles
  /\ variant \in {"session", "global"}
  /\ HasImageBytes(response'.result)

\* C5: a successful generation stores under the URI it reports, and a read of
\* that URI in the same scope answers the stored bytes and mime type: at once,
\* and until the next store at that URI, since nothing else changes what a read
\* answers.
C5_PutThenGet ==
  [][ /\ Stores =>
           ReadResult(RegistryAfter(response'.call.session), reply'.content[1].path)
             = ReadAnswer(reply'.content[1].path,
                          response'.result.generatedImages[1].imageBytes,
                          response'.call.outputMimeType)
      /\ \A s \in SessionsOf(variant, sessionImageRegistries) :
           \A u \in MapKeys(RegistryBefore(s)) \cup MapKeys(RegistryAfter(s)) :
             ReadResult(RegistryAfter(s), u) # ReadResult(RegistryBefore(s), u) =>
               /\ Stores
               /\ s = response'.call.session
               /\ u = reply'.content[1].path ]_vars

C5_Witness ==
  /\ reply.op = "read"
  /\ ~reply.thrown
  /\ Len(reply.contents) = 1
  /\ reply.contents[1].blob = JpgBase64
  /\ reply.contents[1].mimeType = JpegMime

\* C6: a read of an identifier the scope does not hold throws 'Resource not
\* found', answers no contents and changes no registry, also on an empty
\* registry; a list on an empty registry succeeds with an empty list.
C6_NotFound ==
  [][ /\ (Reads /\ ~MapHas(RegistryBefore(reply'.session), reply'.uri)) =>
           /\ reply'.thrown
           /\ reply'.error = ResourceNotFoundText
           /\ reply'.contents = << >>
           /\ UNCHANGED << sessionImageRegistries, imageRegistry, files >>
      /\ (Lists /\ RegistryBefore(reply'.session) = << >>) =>
           /\ ~reply'.thrown
           /\ reply'.resources = << >>
           /\ UNCHANGED << sessionImageRegistries, imageRegistry, files >> ]_vars

C6_Witness ==
  /\ reply.op = "read"
  /\ reply.thrown
  /\ reply.uri = UnknownUri
  /\ reply.contents = << >>
  /\ Len(RegistryOf(variant, sessionImageRegistries, imageRegistry, reply.session)) > 0

\* C7: sessions are isolated: a step changes only the registry of the session
\* whose tool call it completes, and a read or a list in a session answers from
\* that session's registry alone.
C7_SessionIsolation ==
  [][ variant = "session" =>
        /\ \A t \in DOMAIN sessionImageRegistries :
             /\ t \in DOMAIN sessionImageRegistries'
             /\ sessionImageRegistries'[t] # sessionImageRegistries[t] =>
                  (Settles /\ response'.call.session = t)
        /\ Reads =>
             IF MapHas(sessionImageRegistries[reply'.session], reply'.uri)
               THEN /\ ~reply'.thrown
                    /\ Len(reply'.contents) = 1
                    /\ reply'.contents[1].blob =
                         MapGet(sessionImageRegistries[reply'.session],
                                reply'.uri).imageData
               ELSE reply'.thrown /\ reply'.contents = << >>
        /\ Lists =>
             /\ Len(reply'.resources) = Len(sessionImageRegistries[reply'.session])
             /\ \A i \in DOMAIN reply'.resources :
                  reply'.resources[i].uri =
                    sessionImageRegistries[reply'.session][i].key ]_vars

C7_Witness ==
  /\ variant = "session"
  /\ reply.op = "read"
  /\ reply.thrown
  /\ reply.session = "s2"
  /\ "s1" \in DOMAIN sessionImageRegistries
  /\ MapHas(sessionImageRegistries["s1"], reply.uri)

\* ------------------------------------------------------------------------
\* Outcomes of a generation request

\* The provider result of a request by its shape. The provider is asked for
\* NumberOfImages entries, so the shape of a list is that of its entry.
ResultShape(res) ==
  CASE res.thrown -> "Failure"
    [] ~res.thrown /\ (~res.hasImages \/ Len(res.generatedImages) = 0) -> "Empty"
    [] OTHER ->
         LET entry == res.generatedImages[1]
         IN  IF entry.raiFilteredReason \notin {None, ""} THEN "Filtered"
             ELSE IF entry.imageBytes \notin {None, ""} THEN "Success"
             ELSE "NoData"

\* What one block of a reply reports.
BlockKind(block) ==
  CASE block.type = "image" -> "Success"
    [] block.type = "text" /\ block.text \in {ResourceText, SavedFileText, ImageSavedText}
         -> "Success"
    [] block.type = "text" /\ block.text = NoImagesText -> "Empty"
    [] block.type = "text" /\ block.text \in {FilteredText, ImageFilteredText} -> "Filtered"
    [] block.type = "text" /\ block.text \in {NoDataText, ImageNoDataText} -> "NoData"
    [] block.type = "text" /\ block.text \in {ErrorText, SaveFailedText} -> "Failure"
    [] OTHER -> "Other"

\* The outcome a reply reports: that of its only block, or of the entry block
\* that follows the header of the variants that answer with a list.
ReplyKind(content) ==
  IF Len(content) = 1 THEN BlockKind(content[1])
  ELSE IF /\ Len(content) = 2
          /\ content[1].text \in {GeneratedText, GeneratedBase64Text, GeneratedSavedText}
    THEN BlockKind(content[2])
  ELSE "Other"

\* The reply on hand answers a tool call, and the provider result it was
\* computed from is the one on record.
ToolReplied == reply.op = "tool" /\ response.id = reply.id /\ response.id # 0

C9_EmptyResult ==
  [][ (Settles /\ ResultShape(response'.result) = "Empty") =>
        /\ reply'.op = "tool"
        /\ ~reply'.thrown
        /\ Len(reply'.content) = 1
        /\ reply'.content[1].type = "text"
        /\ reply'.content[1].text = NoImagesText
        /\ UNCHANGED << sessionImageRegistries, imageRegistry, files >> ]_vars

C9_Witness ==
  /\ ToolReplied
  /\ response.result.hasImages
  /\ Len(response.result.generatedImages) = 0
  /\ reply.content = << [TextBlock EXCEPT !.text = NoImagesText] >>

\* The entries of a provider result that carry a filter reason.
FilteredEntries(res) ==
  IF res.thrown \/ ~res.hasImages THEN {}
  ELSE {i \in DOMAIN res.generatedImages :
          res.generatedImages[i].raiFilteredReason \notin {None, ""}}

\* C10: for a result entry carrying a filter reason the reply holds the
\* filtered text with that reason and no image block, and the step stores
\* nothing and writes no file, whether or not the entry also has image bytes.
C10_FilteredEntry ==
  [][ (Settles /\ FilteredEntries(response'.result) # {}) =>
        /\ \A i \in FilteredEntries(response'.result) :
             \E j \in DOMAIN reply'.content :
               /\ reply'.content[j].type = "text"
               /\ reply'.content[j].text \in {FilteredText, ImageFilteredText}
               /\ reply'.content[j].detail =
                    response'.result.generatedImages[i].raiFilteredReason
        /\ \A j \in DOMAIN reply'.content :
             /\ reply'.content[j].type # "image"
             /\ reply'.content[j].data = ""
             /\ reply'.content[j].text \notin {ResourceText, SavedFileText, ImageSavedText}
        /\ UNCHANGED << sessionImageRegistries, imageRegistry, files >> ]_vars

C10_Witness ==
  /\ ToolReplied
  /\ FilteredEntries(response.result) = {1}
  /\ response.result.generatedImages[1].imageBytes = PngBase64
  /\ ReplyKind(reply.content) = "Filtered"

\* ------------------------------------------------------------------------
\* Failures of the provider

\* The outcome of the step's tool call is the one its provider result calls
\* for (a file write that fails aside).
NormalOutcome ==
  /\ reply'.op = "tool"
  /\ ~reply'.thrown
  /\ \/ ReplyKind(reply'.content) = ResultShape(response'.result)
     \/ /\ ResultShape(response'.result) = "Success"
        /\ ReplyKind(reply'.content) = "Failure"
        /\ variant \in {"file", "index"}
  /\ (Stores => MapHas(RegistryAfter(response'.call.session), reply'.content[1].path))

\* The request handled last was a tool call whose provider call threw.
ProviderThrew ==
  /\ ToolReplied
  /\ response.result.thrown

\* C11: a provider call that throws is answered with a normal result, one text
\* block holding the error's message; nothing is thrown to the caller,
\* registries and files stay as they were, and the tool call that completes
\* next on the server has the outcome its own provider result calls for.
C11_ProviderThrows ==
  [][ /\ (Settles /\ response'.result.thrown) =>
           /\ reply'.op = "tool"
           /\ ~reply'.thrown
           /\ Len(reply'.content) = 1
           /\ reply'.content[1].type = "text"
           /\ reply'.content[1].text = ErrorText
           /\ reply'.content[1].detail = response'.result.message
           /\ UNCHANGED << sessionImageRegistries, imageRegistry, files >>
      /\ (Settles /\ ProviderThrew) => NormalOutcome ]_vars

C11_Witness ==
  /\ ProviderThrew
  /\ reply.id = 2
  /\ reply.content[1].detail = "fetch failed"
  /\ 1 \in DOMAIN inflight

\* ------------------------------------------------------------------------
\* Racing generations: the two variants that have a registry, every session
\* with its server, and a provider that always returns an image, so that every
\* tool call stores.

RaceResults ==
  { [NoResult EXCEPT !.hasImages = TRUE,
       !.generatedImages = << [raiFilteredReason |-> None, imageBytes |-> bytes] >>] :
    bytes \in {PngBase64, JpgBase64} }

RaceInit ==
  /\ variant \in {"session", "global"}
  /\ configModelName = DefaultModel
  /\ now = Epoch0
  /\ sessionImageRegistries =
       IF variant = "session" THEN [s \in Sessions |-> << >>] ELSE << >>
  /\ imageRegistry = << >>
  /\ files = << >>
  /\ inflight = << >>
  /\ nextId = 0
  /\ response = NoResponse
  /\ reply = NoReply

RaceNext ==
  \/ Tick
  \/ \E sessionId \in Sessions \cup {""}, prompt \in Prompts, model \in ModelArgs,
        aspectRatio \in AspectArgs, outputMimeType \in MimeArgs :
       CallTool(sessionId, prompt, model, aspectRatio, outputMimeType, FALSE)
  \/ \E id \in DOMAIN inflight, res \in RaceResults : ProviderSettles(id, res, TRUE)
  \/ \E sessionId \in Sessions \cup {""}, uri \in RequestedUris :
       ReadResource(sessionId, uri)

SpecRace == RaceInit /\ [][RaceNext]_vars

\* The artifact a storing step stores: its fields as the step's call, the
\* provider's bytes and the clock give them, under the URI the reply reports.
StoredArtifact ==
  LET uri == reply'.content[1].path
  IN  [uri |-> uri,
       filename |-> SubSeq(uri, Len(UriScheme) + 1, Len(uri)),
       imageData |-> response'.result.generatedImages[1].imageBytes,
       mimeType |-> response'.call.outputMimeType,
       prompt |-> response'.call.prompt,
       model |-> response'.call.imageModel,
       timestamp |-> now]

\* C12: a store is a single-key insert-or-overwrite: after it the scope's
\* registry holds exactly one entry for the stored identifier, that entry is
\* the artifact of this (the latest) store whatever was stored there before,
\* and every other key keeps its artifact.
C12_LastWriteWins ==
  [][ Stores =>
        LET before == RegistryBefore(response'.call.session)
            after == RegistryAfter(response'.call.session)
            uri == reply'.content[1].path
        IN  /\ MapKeys(after) = MapKeys(before) \cup {uri}
            /\ Cardinality({i \in DOMAIN after : after[i].key = uri}) = 1
            /\ Len(after) = Cardinality(MapKeys(after))
            /\ MapGet(after, uri) = StoredArtifact
            /\ \A k \in MapKeys(before) \ {uri} : MapGet(after, k) = MapGet(before, k) ]_vars

\* Both calls were in flight together or in turn, both stored, and one entry
\* is left: that of the call handled last.
C12_Witness ==
  /\ variant = "global"
  /\ nextId = 2
  /\ inflight = << >>
  /\ reply.op = "tool"
  /\ Len(imageRegistry) = 1
  /\ imageRegistry[1].value.imageData = response.result.generatedImages[1].imageBytes
  /\ imageRegistry[1].value.prompt = response.call.prompt

\* The first four words of a prompt after lower-casing and cleaning, as the
\* reference derivation has them.
CleanedWords(prompt) ==
  Slice(RefWords(SelectSeq(ToLowerCase(prompt), RefKept), << >>), 4)

\* The step's store replaces the entry its scope holds.
Overwrites(uri) ==
  /\ reply'.content[1].path = uri
  /\ Len(RegistryAfter(response'.call.session))
       = Len(RegistryBefore(response'.call.session))
  /\ MapGet(RegistryAfter(response'.call.session), uri) = StoredArtifact

\* C13 as stated: of two successful generations in one scope, issued within
\* the same second with the same first four cleaned words, the later gets the
\* identifier of the earlier and overwrites it.
C13_IssuedSameSecond ==
  [][ ( /\ Stores
        /\ ToolReplied
        /\ HasImageBytes(response.result)
        /\ response.call.session = response'.call.session
        /\ response.call.issuedAt = response'.call.issuedAt
        /\ CleanedWords(response.call.prompt) = CleanedWords(response'.call.prompt) )
      => Overwrites(reply.content[1].path) ]_vars

\* C13: of two successful generations in one scope whose responses are
\* processed within the same second, with the same format and prompts of the
\* same sanitized segment, the later gets the identifier of the earlier and
\* overwrites it, whenever the two were issued.
C13_ProcessedSameSecond ==
  [][ Stores =>
        \A i \in DOMAIN RegistryBefore(response'.call.session) :
          LET earlier == RegistryBefore(response'.call.session)[i].value
          IN  ( /\ earlier.timestamp = now
                /\ earlier.mimeType = response'.call.outputMimeType
                /\ SanitizedPrompt(earlier.prompt)
                     = SanitizedPrompt(response'.call.prompt) )
              => Overwrites(earlier.uri) ]_vars

C13_Witness ==
  /\ variant = "session"
  /\ nextId = 2
  /\ inflight = << >>
  /\ reply.op = "tool"
  /\ "s1" \in DOMAIN sessionImageRegistries
  /\ "s2" \in DOMAIN sessionImageRegistries
  /\ Len(sessionImageRegistries["s1"]) = 1
  /\ Len(sessionImageRegistries["s2"]) = 0
  /\ sessionImageRegistries["s1"][1].value.timestamp = Epoch0 + 1

\* The provider calls made so far: those awaiting their result and the one
\* handled last.
ProviderCalls ==
  { inflight[id] : id \in DOMAIN inflight }
    \cup (IF response.id # 0 THEN {response.call} ELSE {})

\* C14: in every variant a request that omits the model has the provider
\* called with the configured default model, config.modelName, and a request
\* that gives a model has the provider called with one of the enumeration.
C14_ConfiguredDefault ==
  \A call \in ProviderCalls :
    IF call.modelGiven
      THEN call.imageModel \in ModelEnum
      ELSE call.imageModel = configModelName

\* The scopes that have a registry.
Scopes == SessionsOf(variant, sessionImageRegistries)

\* C15: no eviction: no step removes a session's registry or a key from a
\* registry, so key sets only grow, and a read of a key its scope holds answers
\* an artifact, never 'Resource not found'.
C15_NoEviction ==
  [][ /\ DOMAIN sessionImageRegistries \subseteq DOMAIN sessionImageRegistries'
      /\ \A s \in Scopes : MapKeys(RegistryBefore(s)) \subseteq MapKeys(RegistryAfter(s))
      /\ (Reads /\ MapHas(RegistryBefore(reply'.session), reply'.uri)) =>
           /\ ~reply'.thrown
           /\ Len(reply'.contents) = 1
           /\ reply'.contents[1].blob =
                MapGet(RegistryBefore(reply'.session), reply'.uri).imageData ]_vars

\* Every request of the run has been handled, two images are held, and a read
\* of the older one answers it.
C15_Witness ==
  /\ reply.op = "read"
  /\ ~reply.thrown
  /\ inflight = << >>
  /\ nextId = 2
  /\ Len(RegistryOf(variant, sessionImageRegistries, imageRegistry, reply.session)) = 2
  /\ RegistryOf(variant, sessionImageRegistries, imageRegistry, reply.session)[1].key
       = reply.uri

\* C16: scope creation is lazy and idempotent: a server can be created for
\* every sessionId in every state; a registry that appears is empty and appears
\* alone; a registry that exists is never replaced or cleared, it changes only
\* by the store of a tool call of its session, which adds to it.
C16_GetOrCreate ==
  /\ [](variant = "session" => \A s \in Sessions : ENABLED CreateMcpServer(s))
  /\ [][ /\ \A t \in DOMAIN sessionImageRegistries' \ DOMAIN sessionImageRegistries :
              /\ sessionImageRegistries'[t] = << >>
              /\ DOMAIN sessionImageRegistries' = DOMAIN sessionImageRegistries \cup {t}
              /\ \A u \in DOMAIN sessionImageRegistries :
                   sessionImageRegistries'[u] = sessionImageRegistries[u]
         /\ \A t \in DOMAIN sessionImageRegistries :
              /\ t \in DOMAIN sessionImageRegistries'
              /\ sessionImageRegistries'[t] # sessionImageRegistries[t] =>
                   /\ Stores
                   /\ response'.call.session = t
                   /\ MapKeys(sessionImageRegistries[t])
                        \subseteq MapKeys(sessionImageRegistries'[t]) ]_vars

\* The registry of s1 holds images, and s2 has had its server created since
\* or before: its registry is empty and that of s1 is intact.
C16_Witness ==
  /\ variant = "session"
  /\ DOMAIN sessionImageRegistries = {"s1", "s2"}
  /\ Len(sessionImageRegistries["s1"]) = 2
  /\ sessionImageRegistries["s2"] = << >>

\* s begins with prefix, ends with suffix.
StartsWith(s, prefix) ==
  Len(s) >= Len(prefix) /\ SubSeq(s, 1, Len(prefix)) = prefix

EndsWith(s, suffix) ==
  Len(s) >= Len(suffix) /\ SubSeq(s, Len(s) - Len(suffix) + 1, Len(s)) = suffix

\* An artifact under key k is well formed.
WellFormed(k, a) ==
  /\ a.uri = k
  /\ k = UriScheme \o a.filename
  /\ a.mimeType \in {PngMime, JpegMime}
  /\ Len(a.filename)
       >= Len(NumberToString(a.timestamp)) + 1 + 1 + Len(RefExtension(a.mimeType))
  /\ StartsWith(a.filename, NumberToString(a.timestamp) \o << "_" >>)
  /\ EndsWith(a.filename, << "." >> \o RefExtension(a.mimeType))

\* C17: in every reachable state and scope each key has one entry, whose
\* artifact a has a.uri = k = 'generated-image://' + a.filename, a.filename =
\* '<a.timestamp>_<segment>.<ext>' with ext 'jpg' for image/jpeg and 'png' for
\* image/png, and a list answers one summary per key, in the registry's order.
C17_WellFormed ==
  \A s \in Scopes :
    LET registry == RegistryOf(variant, sessionImageRegistries, imageRegistry, s)
        listed == ListResult(variant, registry)
    IN  /\ \A i, j \in DOMAIN registry : registry[i].key = registry[j].key => i = j
        /\ \A i \in DOMAIN registry : WellFormed(registry[i].key, registry[i].value)
        /\ Len(listed) = Len(registry)
        /\ \A i \in DOMAIN registry :
             /\ listed[i].uri = registry[i].key
             /\ listed[i].mimeType = registry[i].value.mimeType

\* A list of a scope that holds an image of each format.
C17_Witness ==
  /\ reply.op = "list"
  /\ Len(reply.resources) = 2
  /\ reply.resources[1].mimeType = JpegMime
  /\ reply.resources[2].mimeType = PngMime
  /\ reply.resources =
       ListResult(variant, RegistryOf(variant, sessionImageRegistries, imageRegistry,
                                      reply.session))

\* The filename the tool call handled last reports, after the URI scheme or
\* the directory.
DerivedName ==
  LET path == IF variant = "index" THEN reply.content[2].path
              ELSE reply.content[1].path
      prefix == IF variant \in {"session", "global"} THEN UriScheme
                ELSE GeneratedImagesDir \o << "/" >>
  IN  SubSeq(path, Len(prefix) + 1, Len(path))

\* The segment of a filename '<t>_<segment>.<ext>'.
SegmentOf(name, t, format) ==
  SubSeq(name, Len(NumberToString(t)) + 2, Len(name) - Len(RefExtension(format)) - 1)

\* C18: for every prompt the sanitized segment has at most 30 characters, all
\* in [a-z0-9_]; the filename has no path separator, no whitespace and no
\* '..'; and a file-backed handler writes the file directly inside the
\* generated-images directory.
C18_SafeSegment ==
  DerivationDone =>
    LET name == DerivedName
        segment == SegmentOf(name, now, response.call.outputMimeType)
    IN  /\ DerivedAs(name)
        /\ StartsWith(name, NumberToString(now) \o << "_" >>)
        /\ EndsWith(name, << "." >> \o RefExtension(response.call.outputMimeType))
        /\ Len(segment) <= 30
        /\ \A i \in DOMAIN segment :
             segment[i] \in Range(LowerChars) \cup Range(DigitChars) \cup {"_"}
        /\ \A i \in DOMAIN name : name[i] \notin {"/", "\\", " ", "\t", "\n", "\r"}
        /\ \A i \in 1..(Len(name) - 1) : ~(name[i] = "." /\ name[i + 1] = ".")
        /\ variant \in {"file", "index"} =>
             MapKeys(files) = {GeneratedImagesDir \o << "/" >> \o name}

\* The file variant has written the image of the prompt of path characters.
C18_Witness ==
  /\ DerivationDone
  /\ variant = "file"
  /\ response.call.prompt = TraversalPrompt
  /\ now = Epoch0
  /\ MapHas(files, GeneratedImagesDir
                     \o << "/", "1", "7", "5", "4", "9", "9", "8", "5", "9", "1", "_",
                           "e", "t", "c", "_", "p", "w", ".", "p", "n", "g" >>)

\* C19: the timestamp of an identifier is the second in which the provider's
\* response is processed: the filename a handler derives starts with the
\* clock's second of the step that handles the response, which is never before
\* the second the request was issued in; and a store gets the identifier of an
\* earlier artifact of its scope with the same prompt and format exactly when
\* that artifact was stored in the same second.
C19_TimestampAtResponse ==
  [][ /\ (Settles /\ DerivationDone') =>
           /\ StartsWith(DerivedName', NumberToString(now) \o << "_" >>)
           /\ response'.call.issuedAt <= now
      /\ Stores =>
           /\ MapGet(RegistryAfter(response'.call.session),
                     reply'.content[1].path).timestamp = now
           /\ \A i \in DOMAIN RegistryBefore(response'.call.session) :
                LET earlier == RegistryBefore(response'.call.session)[i].value
                IN  ( /\ earlier.prompt = response'.call.prompt
                      /\ earlier.mimeType = response'.call.outputMimeType )
                    => (earlier.uri = reply'.content[1].path
                          <=> earlier.timestamp = now) ]_vars

\* An image stored in the second after the one its request was issued in.
C19_Witness ==
  /\ ToolReplied
  /\ variant \in {"session", "global"}
  /\ HasImageBytes(response.result)
  /\ response.call.issuedAt = Epoch0
  /\ MapGet(CallRegistry, reply.content[1].path).timestamp = Epoch0 + 1

\* ------------------------------------------------------------------------
\* Failures of the file write

\* The step's tool call is one of a file-backed handler in persist mode whose
\* provider result has image bytes.
WritesFile ==
  /\ Settles
  /\ variant \in {"file", "index"}
  /\ ~response'.call.returnBase64
  /\ HasImageBytes(response'.result)

\* The tool call handled last reported a failed write.
WriteFailed ==
  /\ ToolReplied
  /\ variant \in {"file", "index"}
  /\ HasImageBytes(response.result)
  /\ \E j \in DOMAIN reply.content :
       /\ reply.content[j].type = "text"
       /\ reply.content[j].text \in {ErrorText, SaveFailedText}
       /\ reply.content[j].detail = WriteErrorMessage

\* C20: a file-backed handler in persist mode whose provider returned image
\* bytes either writes the decoded bytes to the path it reports, or, the write
\* failing, leaves the files as they were and returns a normal result with a
\* text block holding the write error; it throws nothing, and the tool call
\* that completes next has the outcome its own provider result calls for.
C20_WriteFailure ==
  [][ /\ WritesFile =>
           LET path == IF variant = "index" THEN reply'.content[2].path
                       ELSE reply'.content[1].path
           IN  /\ reply'.op = "tool"
               /\ ~reply'.thrown
               /\ \/ /\ ReplyKind(reply'.content) = "Success"
                     /\ MapHas(files', path)
                     /\ MapGet(files', path)
                          = Base64Decode(response'.result.generatedImages[1].imageBytes)
                  \/ /\ WriteFailed'
                     /\ files' = files
      /\ (Settles /\ WriteFailed) => NormalOutcome ]_vars

\* A failed write has been reported while another tool call awaits its result.
C20_Witness ==
  /\ WriteFailed
  /\ reply.id = 1
  /\ 2 \in DOMAIN inflight
  /\ files = << >>

====
